---------------------------- MODULE Spec2Model ----------------------------
(***************************************************************************)
(* A model of the chunked scan-and-reduce pipeline of src/main.rs: the     *)
(* chunk planner (memory_map), the workers (process_mapped_lines,          *)
(* process_lines, parse_line, round_towards_positive), the accumulator     *)
(* (Measurement) and the merge and report of main.                         *)
(*                                                                         *)
(* Bytes are ASCII codes.  An f64 is modelled bit-exactly for the finite,  *)
(* normal values the pipeline computes: a sign, a 53-bit significand and a *)
(* binary exponent, with round-to-nearest-even after every operation.      *)
(***************************************************************************)
EXTENDS Integers, Sequences, FiniteSets, TLC

(***************************************************************************)
(* Natural numbers of any size, as sequences of 15-bit limbs, least        *)
(* significant limb first, without leading (high) zero limbs; <<>> is 0.   *)
(* They carry the significands of f64 values, which do not fit TLC's       *)
(* integers.  Bits are numbered from 1, the least significant.  The small  *)
(* factors and divisors (k, c) are below 2^15 and 2^16.                    *)
(***************************************************************************)
Max2(a, b) == IF a >= b THEN a ELSE b

Min2(a, b) == IF a <= b THEN a ELSE b

Base == 2^15

RECURSIVE BNorm(_)
BNorm(b) ==
    IF b = <<>> THEN <<>>
    ELSE IF b[Len(b)] # 0 THEN b
    ELSE BNorm(SubSeq(b, 1, Len(b) - 1))

RECURSIVE BFromNat(_)
BFromNat(n) == IF n = 0 THEN <<>> ELSE <<n % Base>> \o BFromNat(n \div Base)

BOne == <<1>>

BLimb(b, i) == IF i >= 1 /\ i <= Len(b) THEN b[i] ELSE 0

\* The number of bits of a small n: 0 for 0, k for 2^(k-1) <= n < 2^k.
BitLenSmall(n) == CHOOSE k \in 0..17 : 2^k > n /\ (k = 0 \/ 2^(k - 1) <= n)

BLen(b) == IF b = <<>> THEN 0 ELSE 15 * (Len(b) - 1) + BitLenSmall(b[Len(b)])

BBit(b, i) ==
    IF i < 1 THEN 0
    ELSE (BLimb(b, ((i - 1) \div 15) + 1) \div 2^((i - 1) % 15)) % 2

RECURSIVE BAddFrom(_, _, _, _, _)
BAddFrom(a, b, i, c, acc) ==
    IF i > Max2(Len(a), Len(b))
    THEN IF c = 1 THEN Append(acc, 1) ELSE acc
    ELSE LET s == BLimb(a, i) + BLimb(b, i) + c
         IN  BAddFrom(a, b, i + 1, s \div Base, Append(acc, s % Base))

BAdd(a, b) == BAddFrom(a, b, 1, 0, <<>>)

\* a - b for a >= b.
RECURSIVE BSubFrom(_, _, _, _, _)
BSubFrom(a, b, i, c, acc) ==
    IF i > Len(a) THEN BNorm(acc)
    ELSE LET s == BLimb(a, i) - BLimb(b, i) - c
         IN  BSubFrom(a, b, i + 1, IF s < 0 THEN 1 ELSE 0,
                      Append(acc, IF s < 0 THEN s + Base ELSE s))

BSub(a, b) == BSubFrom(a, b, 1, 0, <<>>)

\* -1, 0 or 1 as a < b, a = b or a > b.
BCmp(a, b) ==
    IF Len(a) # Len(b) THEN (IF Len(a) < Len(b) THEN -1 ELSE 1)
    ELSE IF a = b THEN 0
    ELSE LET D == {i \in 1..Len(a) : a[i] # b[i]}
             h == CHOOSE i \in D : \A j \in D : j <= i
         IN  IF a[h] < b[h] THEN -1 ELSE 1

\* a * k for a small k.
RECURSIVE BMulFrom(_, _, _, _, _)
BMulFrom(a, k, i, c, acc) ==
    IF i > Len(a) THEN BNorm(acc \o BFromNat(c))
    ELSE LET s == a[i] * k + c
         IN  BMulFrom(a, k, i + 1, s \div Base, Append(acc, s % Base))

BMulSmall(a, k) == BMulFrom(a, k, 1, 0, <<>>)

\* Quotient and remainder of a by a small c > 0, by long division from the
\* most significant limb.
RECURSIVE BDivFrom(_, _, _, _, _)
BDivFrom(a, c, i, r, acc) ==
    IF i = 0 THEN [q |-> BNorm(acc), r |-> r]
    ELSE LET t == Base * r + a[i]
         IN  BDivFrom(a, c, i - 1, t % c, <<t \div c>> \o acc)

BDivSmall(a, c) == BDivFrom(a, c, Len(a), 0, <<>>)

\* a * 2^d and a \div 2^d
BShl(b, d) ==
    IF b = <<>> THEN <<>>
    ELSE [i \in 1..(d \div 15) |-> 0] \o BMulSmall(b, 2^(d % 15))

BShr(b, d) ==
    IF d \div 15 >= Len(b) THEN <<>>
    ELSE BDivSmall(SubSeq(b, (d \div 15) + 1, Len(b)), 2^(d % 15)).q

\* Whether one of the d low bits of b is set.
BLowNonZero(b, d) ==
    \/ \E i \in 1..Min2(d \div 15, Len(b)) : b[i] # 0
    \/ BLimb(b, (d \div 15) + 1) % 2^(d % 15) # 0

\* The decimal digits of a, most significant first (<<0>> for zero).
RECURSIVE BDigits(_)
BDigits(a) ==
    IF Len(a) <= 1 /\ BLimb(a, 1) < 10 THEN <<BLimb(a, 1)>>
    ELSE LET d == BDivSmall(a, 10) IN Append(BDigits(d.q), d.r)

(***************************************************************************)
(* f64.  A value is [neg, m, e]: (-1)^neg * m * 2^e, where m is zero or    *)
(* has exactly SigBits bits.  Every operation computes the exact result    *)
(* and rounds it to nearest, ties to even, as IEEE 754 binary64 does.  The *)
(* pipeline's values stay far inside the exponent range, so overflow,      *)
(* subnormals, infinities and NaN are not modelled.                        *)
(***************************************************************************)
SigBits == 53

F64Zero(neg) == [neg |-> neg, m |-> <<>>, e |-> 0]

F64IsZero(x) == x.m = <<>>

\* The f64 nearest to (-1)^neg * (M + s) * 2^e, where M is a natural number
\* and sticky = 1 says that a further 0 < s < 1 was cut off below M.
F64Round(neg, M, e, sticky) ==
    LET n == BLen(M)
    IN  IF n = 0 THEN F64Zero(neg)
        ELSE IF n <= SigBits
        THEN [neg |-> neg, m |-> BShl(M, SigBits - n), e |-> e - (SigBits - n)]
        ELSE LET drop  == n - SigBits
                 kept  == BShr(M, drop)
                 guard == BBit(M, drop)
                 rest  == sticky = 1 \/ BLowNonZero(M, drop - 1)
                 up    == guard = 1 /\ (rest \/ BBit(kept, 1) = 1)
                 k2    == IF up THEN BAdd(kept, BOne) ELSE kept
             IN  IF BLen(k2) > SigBits
                 THEN [neg |-> neg, m |-> BShr(k2, 1), e |-> e + drop + 1]
                 ELSE [neg |-> neg, m |-> k2, e |-> e + drop]

\* x + y
F64Add(x, y) ==
    IF F64IsZero(x) /\ F64IsZero(y) THEN F64Zero(x.neg /\ y.neg)
    ELSE IF F64IsZero(x) THEN y
    ELSE IF F64IsZero(y) THEN x
    ELSE LET e == Min2(x.e, y.e)
             X == BShl(x.m, x.e - e)
             Y == BShl(y.m, y.e - e)
             c == BCmp(X, Y)
         IN  IF x.neg = y.neg THEN F64Round(x.neg, BAdd(X, Y), e, 0)
             ELSE IF c = 0 THEN F64Zero(FALSE)
             ELSE IF c > 0 THEN F64Round(x.neg, BSub(X, Y), e, 0)
             ELSE F64Round(y.neg, BSub(Y, X), e, 0)

\* x * k for a small integer k > 0 (k is exact as an f64)
F64MulSmall(x, k) == F64Round(x.neg, BMulSmall(x.m, k), x.e, 0)

\* x / c for a small integer c > 0 (c is exact as an f64)
F64DivSmall(x, c) ==
    IF F64IsZero(x) THEN x
    ELSE LET s == BitLenSmall(c) + 2
             d == BDivSmall(BShl(x.m, s), c)
         IN  F64Round(x.neg, d.q, x.e - s, IF d.r # 0 THEN 1 ELSE 0)

\* -1, 0 or 1 as x < y, x = y or x > y; -0.0 equals 0.0.
F64MagCmp(x, y) ==
    IF F64IsZero(x) /\ F64IsZero(y) THEN 0
    ELSE IF F64IsZero(x) THEN -1
    ELSE IF F64IsZero(y) THEN 1
    ELSE IF x.e # y.e THEN (IF x.e < y.e THEN -1 ELSE 1)
    ELSE BCmp(x.m, y.m)

F64Cmp(x, y) ==
    IF F64IsZero(x) /\ F64IsZero(y) THEN 0
    ELSE IF F64IsZero(x) THEN (IF y.neg THEN 1 ELSE -1)
    ELSE IF F64IsZero(y) THEN (IF x.neg THEN -1 ELSE 1)
    ELSE IF x.neg # y.neg THEN (IF x.neg THEN -1 ELSE 1)
    ELSE IF x.neg THEN 0 - F64MagCmp(x, y)
    ELSE F64MagCmp(x, y)

F64Lt(x, y) == F64Cmp(x, y) < 0

F64Gt(x, y) == F64Cmp(x, y) > 0

\* The integer part of |x| and whether |x| has a fractional part.
F64IntPart(x) == IF x.e >= 0 THEN BShl(x.m, x.e) ELSE BShr(x.m, 0 - x.e)

F64HasFrac(x) == x.e < 0 /\ BLowNonZero(x.m, 0 - x.e)

\* f64::round: to the nearest integer, halfway cases away from zero.
F64RoundHalfAway(x) ==
    IF x.e >= 0 THEN x
    ELSE LET half == BBit(x.m, 0 - x.e)
             I    == F64IntPart(x)
         IN  F64Round(x.neg, IF half = 1 THEN BAdd(I, BOne) ELSE I, 0, 0)

\* f64::ceil: the smallest integer not less than x.
F64Ceil(x) ==
    IF x.e >= 0 THEN x
    ELSE LET I == F64IntPart(x)
         IN  IF x.neg THEN F64Round(TRUE, I, 0, 0)
             ELSE F64Round(FALSE, IF F64HasFrac(x) THEN BAdd(I, BOne) ELSE I,
                           0, 0)

RECURSIVE Pow10(_)
Pow10(f) == IF f = 0 THEN 1 ELSE 10 * Pow10(f - 1)

\* str::parse::<f64> of a decimal: the f64 nearest to (-1)^neg * D / 10^f,
\* D a natural number in bits.
F64FromDecimal(neg, D, f) ==
    LET s == SigBits + 2 + 4 * f
        d == BDivSmall(BShl(D, s), Pow10(f))
    IN  F64Round(neg, d.q, 0 - s, IF d.r # 0 THEN 1 ELSE 0)

\* n as f64, for a small integer n (u32 as f64)
F64FromInt(n) == F64Round(n < 0, BFromNat(IF n < 0 THEN 0 - n ELSE n), 0, 0)


(***************************************************************************)
(* Bytes.  Text is a sequence of ASCII codes.                              *)
(***************************************************************************)
NL == 10

SEMI == 59

MINUS == 45

PLUS == 43

DOT == 46

ZERO == 48

SLASH == 47

EQUALS == 61

COMMA == 44

LBRACE == 123

RBRACE == 125

BACKSPACE == 8

CR == 13

IsDigit(c) == c >= ZERO /\ c <= ZERO + 9

\* The bytes of the decimal digits ds.
DigitBytes(ds) == [i \in 1..Len(ds) |-> ZERO + ds[i]]

\* The decimal (-1)^neg * K / 10^d as text with exactly d fractional digits.
DecimalBytes(neg, K, d) ==
    LET ds   == BDigits(K)
        pad  == [i \in 1..Max2(0, d + 1 - Len(ds)) |-> 0] \o ds
        n    == Len(pad)
        int  == DigitBytes(SubSeq(pad, 1, n - d))
        frac == DigitBytes(SubSeq(pad, n - d + 1, n))
    IN  (IF neg THEN <<MINUS>> ELSE <<>>) \o int
            \o (IF d > 0 THEN <<DOT>> \o frac ELSE <<>>)

\* The integer nearest to |x| * 10^d, ties to even.
RECURSIVE BMulPow10(_, _)
BMulPow10(a, d) == IF d = 0 THEN a ELSE BMulPow10(BMulSmall(a, 10), d - 1)

F64ScaledNearest(x, d) ==
    LET M == BMulPow10(x.m, d)
    IN  IF x.e >= 0 THEN BShl(M, x.e)
        ELSE LET I  == BShr(M, 0 - x.e)
                 up == /\ BBit(M, 0 - x.e) = 1
                       /\ (BLowNonZero(M, (0 - x.e) - 1) \/ BBit(I, 1) = 1)
             IN  IF up THEN BAdd(I, BOne) ELSE I

\* format!("{:.1}", x): x rounded to one fractional digit, the exact binary
\* value deciding, ties to even; the sign of a negative x is kept.
F64FmtFixed1(x) == DecimalBytes(x.neg, F64ScaledNearest(x, 1), 1)

\* format!("{}", x): the shortest decimal that parses back to x, printed
\* without an exponent and without a fractional part when it is an integer.
RECURSIVE F64ShortestFrom(_, _)
F64ShortestFrom(x, d) ==
    LET K == F64ScaledNearest(x, d)
    IN  IF F64FromDecimal(x.neg, K, d) = x THEN DecimalBytes(x.neg, K, d)
        ELSE F64ShortestFrom(x, d + 1)

F64Display(x) == F64ShortestFrom(x, 0)

\* str::parse::<f64>() of a decimal without exponent: an optional sign,
\* digits with at most one point, at least one digit.  [ok, v].
RECURSIVE DigitsValue(_, _)
DigitsValue(ds, acc) ==
    IF ds = <<>> THEN acc
    ELSE DigitsValue(Tail(ds),
                     BAdd(BMulSmall(acc, 10), BFromNat(Head(ds) - ZERO)))

SelectDigits(t) == SelectSeq(t, IsDigit)

ParseF64(text) ==
    LET signed == text # <<>> /\ text[1] \in {MINUS, PLUS}
        neg    == text # <<>> /\ text[1] = MINUS
        t      == IF signed THEN Tail(text) ELSE text
        dots   == {i \in 1..Len(t) : t[i] = DOT}
        ds     == SelectDigits(t)
        ok     == /\ \A i \in 1..Len(t) : IsDigit(t[i]) \/ t[i] = DOT
                  /\ Cardinality(dots) <= 1
                  /\ ds # <<>>
        f      == IF dots = {} THEN 0
                  ELSE Len(t) - (CHOOSE i \in dots : TRUE)
    IN  IF ok THEN [ok |-> TRUE, v |-> F64FromDecimal(neg, DigitsValue(ds, <<>>), f)]
        ELSE [ok |-> FALSE, v |-> F64Zero(FALSE)]


(***************************************************************************)
(* Measurement, the per-key accumulator.                                   *)
(***************************************************************************)
Measurement(min, max, sum, count) ==
    [min |-> min, max |-> max, sum |-> sum, count |-> count]

\* A changed record: the test for a new maximum is the one for a new minimum.
record_max_by_less(self, measurement) ==
    Measurement(IF F64Lt(measurement, self.min) THEN measurement ELSE self.min,
                IF F64Lt(measurement, self.max) THEN measurement ELSE self.max,
                F64Add(self.sum, measurement),
                self.count + 1)

\* Measurement::record
record(self, measurement) ==
    Measurement(IF F64Lt(measurement, self.min) THEN measurement ELSE self.min,
                IF F64Gt(measurement, self.max) THEN measurement ELSE self.max,
                F64Add(self.sum, measurement),
                self.count + 1)

\* A changed aggregate: the other accumulator replaces this one.
aggregate_replace(self, other) == other

\* Measurement::aggregate
aggregate(self, other) ==
    Measurement(IF F64Lt(other.min, self.min) THEN other.min ELSE self.min,
                IF F64Gt(other.max, self.max) THEN other.max ELSE self.max,
                F64Add(self.sum, other.sum),
                self.count + other.count)

\* A changed from: the first value recorded into a zeroed Measurement.
from_default(measurement) ==
    Measurement(IF F64Lt(measurement, F64Zero(FALSE)) THEN measurement ELSE F64Zero(FALSE),
                IF F64Gt(measurement, F64Zero(FALSE)) THEN measurement ELSE F64Zero(FALSE),
                measurement,
                1)

\* impl From<f64> for Measurement
from(measurement) == Measurement(measurement, measurement, measurement, 1)

\* impl Display for Measurement: "{}/{}/{:.1}" of min, max, sum / count
fmt(self) ==
    F64Display(self.min) \o <<SLASH>> \o F64Display(self.max) \o <<SLASH>>
        \o F64FmtFixed1(F64DivSmall(self.sum, self.count))

(***************************************************************************)
(* Parsing a chunk.                                                        *)
(***************************************************************************)
\* A changed round_towards_positive: a negative number is rounded to the
\* nearest tenth and one tenth is added.
round_nearest_plus_one(n) ==
    F64DivSmall(IF F64Lt(n, F64Zero(FALSE))
                THEN F64Add(F64RoundHalfAway(F64MulSmall(n, 10)), F64FromInt(1))
                ELSE F64RoundHalfAway(F64MulSmall(n, 10)),
                10)

round_towards_positive(n) ==
    F64DivSmall(IF F64Lt(n, F64Zero(FALSE))
                THEN F64Ceil(F64MulSmall(n, 10))
                ELSE F64RoundHalfAway(F64MulSmall(n, 10)),
                10)

\* parse_line: split at the last ';', parse and round what follows it.
\* ok is FALSE where the code panics (no ';', or parse().unwrap() fails).
parse_line(line) ==
    LET semis == {i \in 1..Len(line) : line[i] = SEMI}
        at    == CHOOSE i \in semis : \A j \in semis : j <= i
        p     == ParseF64(SubSeq(line, at + 1, Len(line)))
    IN  IF semis = {} \/ ~p.ok
        THEN [ok |-> FALSE, city |-> <<>>, measurement |-> F64Zero(FALSE)]
        ELSE [ok |-> TRUE, city |-> SubSeq(line, 1, at - 1),
              measurement |-> round_towards_positive(p.v)]

\* str::lines: the text between line breaks, a final piece without a line
\* break included when it is not empty, a carriage return before a line
\* break dropped.
lines(contents) ==
    LET n      == Len(contents)
        breaks == {i \in 1..n : contents[i] = NL}
        starts == {i \in 1..n : i = 1 \/ contents[i - 1] = NL}
        stop(s) == IF \E b \in breaks : b >= s
                   THEN CHOOSE b \in breaks : b >= s /\ \A c \in breaks : c >= s => b <= c
                   ELSE n + 1
        kth(k) == CHOOSE s \in starts : Cardinality({t \in starts : t <= s}) = k
        piece(s) == LET e == stop(s)
                    IN  IF e <= n /\ e - 1 >= s /\ contents[e - 1] = CR
                        THEN SubSeq(contents, s, e - 2)
                        ELSE SubSeq(contents, s, e - 1)
    IN  [k \in 1..Cardinality(starts) |-> piece(kth(k))]

\* process_lines, the body of its loop: the measurements after one line.
ingest(map, p) ==
    IF p.city \in DOMAIN map
    THEN [map EXCEPT ![p.city] = record(@, p.measurement)]
    ELSE [c \in DOMAIN map \cup {p.city} |->
            IF c = p.city THEN from(p.measurement) ELSE map[c]]

\* The bytes a reader at offset start gets when it asks for at most n bytes.
ReadAt(f, start, n) ==
    IF start >= Len(f) \/ n <= 0 THEN <<>>
    ELSE SubSeq(f, start + 1, Min2(Len(f), start + n))


(***************************************************************************)
(* The inputs: the bytes of measurements.txt and the number of workers     *)
(* (std::thread::available_parallelism).  The files are the well-formed    *)
(* ones of up to MaxLines lines key;value\n over Keys and Values, the two  *)
(* files of the documented scenarios, and one whose mean is a rounding tie.*)
(***************************************************************************)
MaxLines == 3

MaxWorkers == 3

\* "a", "bc"
Keys == {<<97>>, <<98, 99>>}

\* "0.4", "-0.1"
Values == {<<48, 46, 52>>, <<45, 48, 46, 49>>}

Line(key, value) == key \o <<SEMI>> \o value \o <<NL>>

RECURSIVE FilesOfLines(_)
FilesOfLines(n) ==
    IF n = 0 THEN {<<>>}
    ELSE {f \o Line(k, v) : f \in FilesOfLines(n - 1), k \in Keys, v \in Values}

\* Hamburg;12.0  Berlin;8.5  Hamburg;-3.2
HamburgFile ==
    <<72, 97, 109, 98, 117, 114, 103, 59, 49, 50, 46, 48, 10,
      66, 101, 114, 108, 105, 110, 59, 56, 46, 53, 10,
      72, 97, 109, 98, 117, 114, 103, 59, 45, 51, 46, 50, 10>>

\* k;3.1  k;-2.0  k;7.7  zz;0.0
ThreeValuesFile ==
    <<107, 59, 51, 46, 49, 10,
      107, 59, 45, 50, 46, 48, 10,
      107, 59, 55, 46, 55, 10,
      122, 122, 59, 48, 46, 48, 10>>

\* a;-0.5  a;-0.5  a;-0.4  a;-0.4
TieFile ==
    <<97, 59, 45, 48, 46, 53, 10,
      97, 59, 45, 48, 46, 53, 10,
      97, 59, 45, 48, 46, 52, 10,
      97, 59, 45, 48, 46, 52, 10>>

Files ==
    UNION {FilesOfLines(n) : n \in 0..MaxLines} \cup {HamburgFile, ThreeValuesFile, TieFile}

(***************************************************************************)
(* The program.                                                            *)
(***************************************************************************)
ProbeLen == 100

VARIABLES
    file,          \* the bytes of measurements.txt
    W,             \* available_parallelism
    pc,            \* where the main thread is
    beginning,     \* memory_map: the start of the next chunk
    temp,          \* memory_map: the probe buffer
    mmap,          \* memory_map: the chunks planned so far, <<start, end>>
    spawned,       \* main: the number of workers spawned
    wpc,           \* where each worker thread is
    wlines,        \* process_lines: the lines of the worker's chunk
    wnext,         \* process_lines: the index of the next line
    wmap,          \* process_lines: the worker's measurements
    line_count,    \* process_lines: the worker's line_count
    joined,        \* main: the handles joined so far, in the order joined
    result,        \* main: what is left of the joined worker's iterator
    measurements,  \* main: the global measurements
    out            \* the bytes written to stdout

vars == <<file, W, pc, beginning, temp, mmap, spawned, wpc, wlines, wnext,
          wmap, line_count, joined, result, measurements, out>>

plannerVars == <<beginning, temp, mmap>>

workerVars == <<wpc, wlines, wnext, wmap, line_count>>

mergeVars == <<joined, result, measurements>>

\* A HashMap<&str, Measurement> is a function from its keys.
EmptyMap == <<>>

Insert(map, city, m) ==
    [c \in DOMAIN map \cup {city} |-> IF c = city THEN m ELSE map[c]]

Remove(map, city) == [c \in DOMAIN map \ {city} |-> map[c]]

Workers == 1..W

Init ==
    /\ file \in Files
    /\ W \in 1..MaxWorkers
    /\ pc = "plan"
    /\ beginning = 0
    /\ temp = [i \in 1..ProbeLen |-> 0]
    /\ mmap = <<>>
    /\ spawned = 0
    /\ wpc = [t \in Workers |-> "idle"]
    /\ wlines = [t \in Workers |-> <<>>]
    /\ wnext = [t \in Workers |-> 1]
    /\ wmap = [t \in Workers |-> EmptyMap]
    /\ line_count = [t \in Workers |-> 0]
    /\ joined = <<>>
    /\ result = EmptyMap
    /\ measurements = EmptyMap
    /\ out = <<>>

file_size == Len(file)

chunk_size == file_size \div W

\* The probe buffer after file.read at offset at: the bytes read replace
\* the front of the buffer, the rest keeps what it held.
ProbeRead(buf, at) ==
    LET got == ReadAt(file, at, ProbeLen)
    IN  [i \in 1..ProbeLen |-> IF i <= Len(got) THEN got[i] ELSE buf[i]]

\* str::find('\n'): the 0-based offset of the first line break, -1 for None.
find(buf) ==
    LET at == {i \in 1..Len(buf) : buf[i] = NL}
    IN  IF at = {} THEN -1
        ELSE (CHOOSE i \in at : \A j \in at : i <= j) - 1

\* memory_map, one turn of its loop: probe at beginning + chunk_size, end
\* the chunk at the first line break of the probe buffer; panic when the
\* buffer holds none.
Probe ==
    /\ pc = "plan"
    /\ Len(mmap) < W
    /\ LET buf     == ProbeRead(temp, beginning + chunk_size)
           newline == find(buf)
           end     == newline + beginning + chunk_size
       IN  /\ temp' = buf
           /\ IF newline < 0
              THEN /\ pc' = "panicked"
                   /\ UNCHANGED <<beginning, mmap>>
              ELSE /\ mmap' = Append(mmap, <<beginning, end>>)
                   /\ beginning' = end + 1
                   /\ pc' = IF Len(mmap) + 1 = W THEN "spawn" ELSE "plan"
    /\ UNCHANGED <<file, W, spawned, workerVars, mergeVars, out>>

\* main: spawn the W workers, worker t on chunk mmap[t].
Spawn ==
    /\ pc = "spawn"
    /\ spawned' = W
    /\ wpc' = [t \in Workers |-> "read"]
    /\ pc' = "join"
    /\ UNCHANGED <<file, W, plannerVars, wlines, wnext, wmap, line_count,
                   mergeVars, out>>

\* process_mapped_lines: read end - start bytes at start, and enter
\* process_lines with them; a chunk without lines is returned at once.
WorkerRead(t) ==
    /\ pc \notin {"panicked", "done"}
    /\ wpc[t] = "read"
    /\ LET start == mmap[t][1]
           end   == mmap[t][2]
           buf   == ReadAt(file, start, end - start)
       IN  /\ wlines' = [wlines EXCEPT ![t] = lines(buf)]
           /\ wpc' = [wpc EXCEPT ![t] =
                        IF lines(buf) = <<>> THEN "returned" ELSE "lines"]
    /\ UNCHANGED <<file, W, pc, plannerVars, spawned, wnext, wmap, line_count,
                   mergeVars, out>>

\* process_lines, one turn of its loop; after the last line the
\* measurements are returned.
WorkerLine(t) ==
    /\ pc \notin {"panicked", "done"}
    /\ wpc[t] = "lines"
    /\ LET p == parse_line(wlines[t][wnext[t]])
       IN  IF ~p.ok
           THEN /\ wpc' = [wpc EXCEPT ![t] = "panicked"]
                /\ UNCHANGED <<wnext, wmap, line_count>>
           ELSE /\ wnext' = [wnext EXCEPT ![t] = @ + 1]
                /\ wpc' = [wpc EXCEPT ![t] =
                             IF wnext[t] = Len(wlines[t]) THEN "returned" ELSE "lines"]
                /\ wmap' = [wmap EXCEPT ![t] = ingest(@, p)]
                /\ line_count' = [line_count EXCEPT ![t] =
                                    IF p.city \in DOMAIN wmap[t] THEN @ + 1 ELSE @]
    /\ UNCHANGED <<file, W, pc, plannerVars, spawned, wlines, mergeVars, out>>

\* A changed NextHandle: the returned worker with the lowest index among
\* those not joined yet, whatever its place in the spawn order.
NextHandleFirstReturned ==
    LET R == {t \in Workers : /\ wpc[t] \in {"returned", "panicked"}
                              /\ \A i \in 1..Len(joined) : joined[i] # t}
    IN  IF R = {} THEN 0 ELSE CHOOSE t \in R : \A u \in R : t <= u

\* main: the handle the loop over handles takes next, in spawn order.
NextHandle == Len(joined) + 1

\* A changed Join: the worker's measurements are taken without waiting for
\* the worker to finish.
JoinWithoutWaiting ==
    /\ pc = "join"
    /\ NextHandle \in Workers
    /\ joined' = Append(joined, NextHandle)
    /\ result' = wmap[NextHandle]
    /\ pc' = "fold"
    /\ UNCHANGED <<file, W, plannerVars, spawned, workerVars, measurements, out>>

\* A changed Join: the Err of a panicked worker is dropped instead of
\* unwrapped, and what that worker had gathered is taken.
JoinIgnoringPanic ==
    /\ pc = "join"
    /\ NextHandle \in Workers
    /\ wpc[NextHandle] \in {"returned", "panicked"}
    /\ joined' = Append(joined, NextHandle)
    /\ result' = wmap[NextHandle]
    /\ pc' = "fold"
    /\ UNCHANGED <<file, W, plannerVars, spawned, workerVars, measurements, out>>

\* main: handle.join().unwrap() on the next handle: wait for that worker,
\* panic if it panicked, else take its measurements.
Join ==
    /\ pc = "join"
    /\ NextHandle \in Workers
    /\ wpc[NextHandle] \in {"returned", "panicked"}
    /\ IF wpc[NextHandle] = "panicked"
       THEN /\ pc' = "panicked"
            /\ UNCHANGED mergeVars
       ELSE /\ joined' = Append(joined, NextHandle)
            /\ result' = wmap[NextHandle]
            /\ pc' = "fold"
            /\ UNCHANGED measurements
    /\ UNCHANGED <<file, W, plannerVars, spawned, workerVars, out>>

\* main: the next (city, measurement) of the joined worker's iterator, in
\* whatever order the HashMap yields them.
Fold ==
    /\ pc = "fold"
    /\ \E city \in DOMAIN result :
          /\ measurements' =
                IF city \in DOMAIN measurements
                THEN [measurements EXCEPT ![city] = aggregate(@, result[city])]
                ELSE Insert(measurements, city, result[city])
          /\ result' = Remove(result, city)
    /\ UNCHANGED <<file, W, pc, plannerVars, spawned, workerVars, joined, out>>

\* main: the iterator is exhausted; on to the next handle, or to the report.
FoldEnd ==
    /\ pc = "fold"
    /\ DOMAIN result = {}
    /\ pc' = IF Len(joined) = W THEN "render" ELSE "join"
    /\ UNCHANGED <<file, W, plannerVars, spawned, workerVars, mergeVars, out>>


\* str::cmp: byte-wise lexicographic order.
KeyLess(a, b) ==
    \/ \E i \in 1..Min2(Len(a), Len(b)) :
          a[i] < b[i] /\ \A j \in 1..(i - 1) : a[j] = b[j]
    \/ Len(a) < Len(b) /\ \A j \in 1..Len(a) : a[j] = b[j]

\* A changed sort_by: the comparison taken the other way round, b.0.cmp(&a.0).
sort_by_descending(keys) ==
    [k \in 1..Cardinality(keys) |->
        CHOOSE c \in keys : Cardinality({d \in keys : KeyLess(c, d)}) = k - 1]

\* results.sort_by(|a, b| a.0.cmp(&b.0)): the keys in ascending order.
sort_by(keys) ==
    [k \in 1..Cardinality(keys) |->
        CHOOSE c \in keys : Cardinality({d \in keys : KeyLess(d, c)}) = k - 1]

\* The "{}={}," of the entries of map for the keys from index i on.
RECURSIVE write_entries(_, _, _)
write_entries(map, keys, i) ==
    IF i > Len(keys) THEN <<>>
    ELSE keys[i] \o <<EQUALS>> \o fmt(map[keys[i]]) \o <<COMMA>>
            \o write_entries(map, keys, i + 1)

\* What main writes to stdout for the global measurements map.
report(map) ==
    <<LBRACE>> \o write_entries(map, sort_by(DOMAIN map), 1)
        \o <<BACKSPACE, RBRACE>>

\* main: sort the measurements and write the report.
Render ==
    /\ pc = "render"
    /\ out' = report(measurements)
    /\ pc' = "done"
    /\ UNCHANGED <<file, W, plannerVars, spawned, workerVars, mergeVars>>

Next ==
    \/ Probe
    \/ Spawn
    \/ \E t \in Workers : WorkerRead(t)
    \/ \E t \in Workers : WorkerLine(t)
    \/ Join
    \/ Fold
    \/ FoldEnd
    \/ Render

Spec == Init /\ [][Next]_vars


(***************************************************************************)
(* The program on inputs that break the input contract, and with reads     *)
(* that fail: every seek and read of the code is unwrapped, so an Err      *)
(* panics the thread that made the call.                                   *)
(***************************************************************************)
MaxFatalLines == 2

\* "a;0.4", "bc;-0.1", "bc" (no delimiter), "a;-" (no number)
FatalLines ==
    {<<97, 59, 48, 46, 52, 10>>, <<98, 99, 59, 45, 48, 46, 49, 10>>,
     <<98, 99, 10>>, <<97, 59, 45, 10>>}

RECURSIVE FatalFilesOfLines(_)
FatalFilesOfLines(n) ==
    IF n = 0 THEN {<<>>}
    ELSE {f \o l : f \in FatalFilesOfLines(n - 1), l \in FatalLines}

\* One record longer than two probe windows.
LongRecordFile ==
    [i \in 1..(2 * ProbeLen + 20) |-> 120] \o <<SEMI, 48, 46, 52, NL>>

\* "a;0.4" without a line break.
UnterminatedFile == <<97, 59, 48, 46, 52>>

FatalFiles ==
    UNION {FatalFilesOfLines(n) : n \in 0..MaxFatalLines}
        \cup {LongRecordFile, UnterminatedFile}

InitFatal ==
    /\ file \in FatalFiles
    /\ W \in 1..MaxWorkers
    /\ pc = "plan"
    /\ beginning = 0
    /\ temp = [i \in 1..ProbeLen |-> 0]
    /\ mmap = <<>>
    /\ spawned = 0
    /\ wpc = [t \in Workers |-> "idle"]
    /\ wlines = [t \in Workers |-> <<>>]
    /\ wnext = [t \in Workers |-> 1]
    /\ wmap = [t \in Workers |-> EmptyMap]
    /\ line_count = [t \in Workers |-> 0]
    /\ joined = <<>>
    /\ result = EmptyMap
    /\ measurements = EmptyMap
    /\ out = <<>>

\* memory_map: file.seek(..).unwrap() or file.read(..).unwrap() on an Err.
ProbeReadError ==
    /\ pc = "plan"
    /\ Len(mmap) < W
    /\ pc' = "panicked"
    /\ UNCHANGED <<file, W, plannerVars, spawned, workerVars, mergeVars, out>>

\* process_mapped_lines: open, seek or read_to_end unwrapped on an Err.
WorkerReadError(t) ==
    /\ pc \notin {"panicked", "done"}
    /\ wpc[t] = "read"
    /\ wpc' = [wpc EXCEPT ![t] = "panicked"]
    /\ UNCHANGED <<file, W, pc, plannerVars, spawned, wlines, wnext, wmap,
                   line_count, mergeVars, out>>

NextFatal ==
    \/ Next
    \/ ProbeReadError
    \/ \E t \in Workers : WorkerReadError(t)

SpecFatal == InitFatal /\ [][NextFatal]_vars


(***************************************************************************)
(* The program on files of one record k;value, for every value of one      *)
(* fractional digit up to TenthsBound tenths, negative zero included, and  *)
(* every value of two fractional digits up to HundredthsBound hundredths:  *)
(* the values parse_line parses and round_towards_positive rounds.         *)
(***************************************************************************)
TenthsBound == 120

HundredthsBound == 60

Abs(n) == IF n < 0 THEN 0 - n ELSE n

\* n / 10^d as text with d fractional digits.
ValueBytes(n, d) == DecimalBytes(n < 0, BFromNat(Abs(n)), d)

RoundValues ==
    {ValueBytes(n, 1) : n \in (0 - TenthsBound)..TenthsBound}
        \cup {DecimalBytes(TRUE, BFromNat(0), 1)}
        \cup {ValueBytes(n, 2) : n \in (0 - HundredthsBound)..HundredthsBound}

RoundFiles == {Line(<<107>>, v) : v \in RoundValues}

InitRound ==
    /\ file \in RoundFiles
    /\ W = 2
    /\ pc = "plan"
    /\ beginning = 0
    /\ temp = [i \in 1..ProbeLen |-> 0]
    /\ mmap = <<>>
    /\ spawned = 0
    /\ wpc = [t \in Workers |-> "idle"]
    /\ wlines = [t \in Workers |-> <<>>]
    /\ wnext = [t \in Workers |-> 1]
    /\ wmap = [t \in Workers |-> EmptyMap]
    /\ line_count = [t \in Workers |-> 0]
    /\ joined = <<>>
    /\ result = EmptyMap
    /\ measurements = EmptyMap
    /\ out = <<>>

SpecRound == InitRound /\ [][Next]_vars


(***************************************************************************)
(* The pipeline's parts as functions of their inputs, for stating what a   *)
(* run must produce.                                                       *)
(***************************************************************************)
\* process_lines: the measurements of a chunk's lines from index i on,
\* added to map (the lines of a well-formed file all parse).
RECURSIVE process_lines(_, _, _)
process_lines(ls, i, map) ==
    IF i > Len(ls) THEN map
    ELSE process_lines(ls, i + 1, ingest(map, parse_line(ls[i])))

\* process_mapped_lines(start, end): the measurements of the chunk.
process_mapped_lines(start, end) ==
    process_lines(lines(ReadAt(file, start, end - start)), 1, EmptyMap)

\* main's merge of one worker's measurements into the global ones.
merge(global, local) ==
    [c \in DOMAIN global \cup DOMAIN local |->
        IF c \in DOMAIN global /\ c \in DOMAIN local
        THEN aggregate(global[c], local[c])
        ELSE IF c \in DOMAIN global THEN global[c] ELSE local[c]]

\* The global measurements once the workers of the handles hs[1..n] are
\* merged in that order.
RECURSIVE merged(_, _)
merged(hs, n) ==
    IF n = 0 THEN EmptyMap
    ELSE merge(merged(hs, n - 1),
               process_mapped_lines(mmap[hs[n]][1], mmap[hs[n]][2]))

InOrder == [t \in Workers |-> t]

Terminated == pc \in {"done", "panicked"}

Planned == Len(mmap) = W

\* The records of the file, and the value a record states, in tenths.
Records == lines(file)

KeyOf(line) == parse_line(line).city

RECURSIVE DigitsToNat(_, _)
DigitsToNat(ds, acc) ==
    IF ds = <<>> THEN acc ELSE DigitsToNat(Tail(ds), 10 * acc + (Head(ds) - ZERO))

TenthsOf(line) ==
    LET semis == {i \in 1..Len(line) : line[i] = SEMI}
        at    == CHOOSE i \in semis : \A j \in semis : j <= i
        text  == SubSeq(line, at + 1, Len(line))
        n     == DigitsToNat(SelectDigits(text), 0)
    IN  IF text[1] = MINUS THEN 0 - n ELSE n

\* The f64 nearest to n tenths.
F64OfTenths(n) == F64FromDecimal(n < 0, BFromNat(IF n < 0 THEN 0 - n ELSE n), 1)

(***************************************************************************)
(* C1.  The chunk descriptors memory_map returns, read as ranges           *)
(* [start, end), are contiguous and disjoint, their union is exactly       *)
(* [0, file_size), and every boundary other than 0 and file_size lies      *)
(* immediately after a line-break byte.                                    *)
(***************************************************************************)
AfterLineBreak(b) == b >= 1 /\ b <= file_size /\ file[b] = NL

C1_ChunkCoverage ==
    Planned =>
        /\ mmap[1][1] = 0
        /\ mmap[W][2] = file_size
        /\ \A i \in 1..W : mmap[i][1] <= mmap[i][2]
        /\ \A i \in 1..(W - 1) : mmap[i + 1][1] = mmap[i][2]
        /\ \A i \in 1..W : \A b \in {mmap[i][1], mmap[i][2]} :
              b \in {0, file_size} \/ AfterLineBreak(b)

(***************************************************************************)
(* C2.  For a well-formed file no worker ingests a partial record, and     *)
(* every record of the file is ingested by exactly one worker: when the    *)
(* run has ended, the lines the workers ingested, worker after worker, are *)
(* the records of the file, each once.                                     *)
(***************************************************************************)
Ingested(t) == SubSeq(wlines[t], 1, wnext[t] - 1)

RECURSIVE IngestedUpTo(_)
IngestedUpTo(t) == IF t = 0 THEN <<>> ELSE IngestedUpTo(t - 1) \o Ingested(t)

C2_EveryRecordOnce ==
    /\ \A t \in Workers : \A i \in 1..Len(wlines[t]) :
          \E j \in 1..Len(Records) : wlines[t][i] = Records[j]
    /\ Terminated => IngestedUpTo(W) = Records

(***************************************************************************)
(* C3.  For a fixed non-empty well-formed file every run, whatever W,      *)
(* produces a report, and the reports are the same bytes: those of the     *)
(* file processed as one chunk.                                            *)
(***************************************************************************)
C3_SameReportForEveryW ==
    file # <<>> =>
        /\ pc # "panicked"
        /\ pc = "done" => out = report(process_lines(Records, 1, EmptyMap))


(***************************************************************************)
(* C4.  For a fixed file and W the global measurements and the report do   *)
(* not depend on the scheduling of the workers: whenever main is between   *)
(* two handles the global measurements are those of the joined workers'    *)
(* chunks merged in spawn order, and the report is the report of all W     *)
(* chunks merged in spawn order.                                           *)
(***************************************************************************)
C4_SchedulingIndependent ==
    /\ pc = "join" => measurements = merged(InOrder, Len(joined))
    /\ pc \in {"render", "done"} => measurements = merged(InOrder, W)
    /\ pc = "done" => out = report(merged(InOrder, W))

C4_Witness ==
    /\ pc = "done"
    /\ W = 3
    /\ \E c \in DOMAIN measurements : \A t \in Workers : c \in DOMAIN wmap[t]

(***************************************************************************)
(* C5.  A run with W = 1 on a non-empty well-formed file ends with a       *)
(* report that has one entry per distinct key, carrying the minimum, the   *)
(* maximum and the mean of the key's values; for Hamburg;12.0, Berlin;8.5, *)
(* Hamburg;-3.2 the report is {Berlin=8.5/8.5/8.5,Hamburg=-3.2/12.0/4.4}.  *)
(***************************************************************************)
\* {Berlin=8.5/8.5/8.5,Hamburg=-3.2/12.0/4.4}
HamburgReport ==
    <<123, 66, 101, 114, 108, 105, 110, 61, 56, 46, 53, 47, 56, 46, 53, 47,
      56, 46, 53, 44, 72, 97, 109, 98, 117, 114, 103, 61, 45, 51, 46, 50, 47,
      49, 50, 46, 48, 47, 52, 46, 52, 125>>

RecordsOf(c) == {i \in 1..Len(Records) : KeyOf(Records[i]) = c}

MinTenths(c) ==
    CHOOSE v \in {TenthsOf(Records[i]) : i \in RecordsOf(c)} :
        \A i \in RecordsOf(c) : v <= TenthsOf(Records[i])

MaxTenths(c) ==
    CHOOSE v \in {TenthsOf(Records[i]) : i \in RecordsOf(c)} :
        \A i \in RecordsOf(c) : v >= TenthsOf(Records[i])

C5_SingleWorkerReport ==
    (W = 1 /\ file # <<>> /\ Terminated) =>
        /\ pc = "done"
        /\ DOMAIN measurements = {KeyOf(Records[i]) : i \in 1..Len(Records)}
        /\ \A c \in DOMAIN measurements :
              /\ measurements[c].min = F64OfTenths(MinTenths(c))
              /\ measurements[c].max = F64OfTenths(MaxTenths(c))
              /\ measurements[c].count = Cardinality(RecordsOf(c))
        /\ file = HamburgFile => out = HamburgReport

(***************************************************************************)
(* C6.  Measurement::aggregate is commutative and associative in min, max, *)
(* sum and count: for any accumulators A, B, C the workers built from      *)
(* disjoint sets of records, merging A with B equals merging B with A, and *)
(* merging (A with B) with C equals merging A with (B with C).             *)
(***************************************************************************)
C6_MergeCommutativeAssociative ==
    LET P == UNION {{<<t, c>> : c \in DOMAIN wmap[t]} : t \in Workers}
        A(x) == wmap[x[1]][x[2]]
    IN  /\ \A x, y \in P :
              x # y => aggregate(A(x), A(y)) = aggregate(A(y), A(x))
        /\ \A x, y, z \in P :
              (x # y /\ y # z /\ x # z) =>
                  aggregate(aggregate(A(x), A(y)), A(z))
                      = aggregate(A(x), aggregate(A(y), A(z)))


(***************************************************************************)
(* C7.  For the values a worker has observed for a key, in order, the      *)
(* key's accumulator (made from the first value, record applied to each    *)
(* later one) has min = the smallest value, max = the largest value,       *)
(* count = the number of values and                                        *)
(*   - as claimed: sum = the total of the values;                          *)
(*   - as amended: sum = the values added in order in f64 arithmetic, each *)
(*     addition rounded to nearest, which for [3.1, -2.0, 7.7] is 8.8.     *)
(***************************************************************************)
\* The values worker t has observed for key c, in tenths, in order.
Observed(t, c) ==
    LET HasKey(line) == KeyOf(line) = c
        ls == SelectSeq(Ingested(t), HasKey)
    IN  [i \in 1..Len(ls) |-> TenthsOf(ls[i])]

SmallestOf(vs) == CHOOSE v \in {vs[i] : i \in 1..Len(vs)} : \A i \in 1..Len(vs) : v <= vs[i]

LargestOf(vs) == CHOOSE v \in {vs[i] : i \in 1..Len(vs)} : \A i \in 1..Len(vs) : v >= vs[i]

RECURSIVE TotalOf(_, _)
TotalOf(vs, n) == IF n = 0 THEN 0 ELSE TotalOf(vs, n - 1) + vs[n]

RECURSIVE F64SumInOrder(_, _)
F64SumInOrder(vs, n) ==
    IF n = 1 THEN F64OfTenths(vs[1])
    ELSE F64Add(F64SumInOrder(vs, n - 1), F64OfTenths(vs[n]))

C7_RecordTotals ==
    \A t \in Workers : \A c \in DOMAIN wmap[t] :
        LET vs == Observed(t, c)
        IN  /\ wmap[t][c].min = F64OfTenths(SmallestOf(vs))
            /\ wmap[t][c].max = F64OfTenths(LargestOf(vs))
            /\ wmap[t][c].sum = F64OfTenths(TotalOf(vs, Len(vs)))
            /\ wmap[t][c].count = Len(vs)

C7_RecordF64Sum ==
    \A t \in Workers : \A c \in DOMAIN wmap[t] :
        LET vs == Observed(t, c)
        IN  /\ vs # <<>>
            /\ wmap[t][c].min = F64OfTenths(SmallestOf(vs))
            /\ wmap[t][c].max = F64OfTenths(LargestOf(vs))
            /\ wmap[t][c].sum = F64SumInOrder(vs, Len(vs))
            /\ wmap[t][c].count = Len(vs)

\* A worker has observed 3.1, -2.0, 7.7 for key k: min -2.0, max 7.7, sum 8.8.
C7_Witness ==
    \E t \in Workers :
        /\ <<107>> \in DOMAIN wmap[t]
        /\ Observed(t, <<107>>) = <<31, -20, 77>>
        /\ wmap[t][<<107>>] =
              Measurement(F64OfTenths(-20), F64OfTenths(77), F64OfTenths(88), 3)

(***************************************************************************)
(* C8.  Every accumulator of a worker's measurements, of a joined worker's *)
(* iterator and of the global measurements has count >= 1 and min <= max,  *)
(* and none was made from a zeroed state: an accumulator of one value has  *)
(* that value as min, max and sum.                                         *)
(***************************************************************************)
WellFormed(m) ==
    /\ m.count >= 1
    /\ ~F64Gt(m.min, m.max)
    /\ m.count = 1 => (m.min = m.max /\ m.max = m.sum)

C8_AccumulatorsWellFormed ==
    /\ \A t \in Workers : \A c \in DOMAIN wmap[t] : WellFormed(wmap[t][c])
    /\ \A c \in DOMAIN result : WellFormed(result[c])
    /\ \A c \in DOMAIN measurements : WellFormed(measurements[c])

C8_Witness ==
    /\ pc = "done"
    /\ \E c \in DOMAIN measurements :
          /\ measurements[c].count >= 2
          /\ F64Lt(measurements[c].min, measurements[c].max)
    /\ \E t \in Workers : \E c \in DOMAIN wmap[t] : wmap[t][c].count = 1

(***************************************************************************)
(* C9.  The report is the byte {, the entries key=min/max/mean separated   *)
(* by single commas, and the byte }, with no comma and no other byte       *)
(* between the last entry and the closing brace.                           *)
(***************************************************************************)
RECURSIVE joined_entries(_, _, _)
joined_entries(map, keys, i) ==
    IF i > Len(keys) THEN <<>>
    ELSE keys[i] \o <<EQUALS>> \o fmt(map[keys[i]])
            \o (IF i < Len(keys) THEN <<COMMA>> ELSE <<>>)
            \o joined_entries(map, keys, i + 1)

C9_NoTrailingComma ==
    pc = "done" =>
        out = <<LBRACE>> \o joined_entries(measurements, sort_by(DOMAIN measurements), 1)
                \o <<RBRACE>>

(***************************************************************************)
(* C10.  In every entry of the report each of the three numeric fields     *)
(* (min, max, mean) is written with exactly one fractional digit, whole    *)
(* numbers such as 12.0 included.                                          *)
(***************************************************************************)
\* The pieces of s between the occurrences of sep.
Split(s, sep) ==
    LET cuts == {0, Len(s) + 1} \cup {i \in 1..Len(s) : s[i] = sep}
        kth(k) == CHOOSE i \in cuts : Cardinality({j \in cuts : j < i}) = k - 1
    IN  [k \in 1..(Cardinality(cuts) - 1) |-> SubSeq(s, kth(k) + 1, kth(k + 1) - 1)]

\* The numeric fields of the report's entries: of each piece between commas
\* that holds a =, what follows the = up to a closing brace, cut at the /.
ReportFields ==
    LET pieces  == Split(out, COMMA)
        IsEntry(e) == \E i \in 1..Len(e) : e[i] = EQUALS
        entries == SelectSeq(pieces, IsEntry)
        NotBrace(b) == b # RBRACE
        value(e) == SelectSeq(Split(e, EQUALS)[2], NotBrace)
    IN  [k \in 1..Len(entries) |-> Split(value(entries[k]), SLASH)]

OneFractionalDigit(f) ==
    /\ Len(f) >= 3
    /\ f[Len(f) - 1] = DOT
    /\ IsDigit(f[Len(f)])
    /\ \A i \in 1..(Len(f) - 2) : IsDigit(f[i]) \/ (i = 1 /\ f[i] = MINUS)
    /\ IsDigit(f[Len(f) - 2])

C10_OneFractionalDigit ==
    pc = "done" =>
        /\ Len(ReportFields) = Cardinality(DOMAIN measurements)
        /\ \A k \in 1..Len(ReportFields) :
              /\ Len(ReportFields[k]) = 3
              /\ \A i \in 1..3 : OneFractionalDigit(ReportFields[k][i])


(***************************************************************************)
(* C11.  The report lists every key of the global measurements exactly     *)
(* once, and its entries are in strictly ascending byte-wise order of      *)
(* their keys, whatever the order in which the keys were inserted.         *)
(***************************************************************************)
\* The keys of the report's entries, in the order written: of each piece
\* between commas that holds a =, what precedes the =, the opening brace
\* dropped.
ReportKeys ==
    LET pieces  == Split(out, COMMA)
        IsEntry(e) == \E i \in 1..Len(e) : e[i] = EQUALS
        entries == SelectSeq(pieces, IsEntry)
        NotBrace(b) == b # LBRACE
    IN  [k \in 1..Len(entries) |-> SelectSeq(Split(entries[k], EQUALS)[1], NotBrace)]

\* a is before b byte by byte, or is a proper prefix of b.
BytewiseBefore(a, b) ==
    LET n == IF Len(a) < Len(b) THEN Len(a) ELSE Len(b)
        d == {i \in 1..n : a[i] # b[i]}
    IN  IF d = {} THEN Len(a) < Len(b)
        ELSE LET i == CHOOSE j \in d : \A k \in d : j <= k IN a[i] < b[i]

C11_SortedUniqueKeys ==
    pc = "done" =>
        LET keys == ReportKeys
        IN  /\ {keys[k] : k \in 1..Len(keys)} = DOMAIN measurements
            /\ Len(keys) = Cardinality(DOMAIN measurements)
            /\ \A k \in 1..(Len(keys) - 1) : BytewiseBefore(keys[k], keys[k + 1])

\* A report of two keys of which the greater was inserted first.
C11_Witness ==
    /\ pc = "done"
    /\ Len(ReportKeys) = 2
    /\ KeyOf(Records[1]) = ReportKeys[2]


(***************************************************************************)
(* C12.  On a fatal condition (a line without delimiter or without a       *)
(* parseable number in any worker, a failed read, a chunk-planning         *)
(* failure) the run ends without a report: in a state in which the planner *)
(* or a worker has failed, no byte of the report has been written, and     *)
(* none is written later.                                                  *)
(***************************************************************************)
Failed == pc = "panicked" \/ \E t \in Workers : wpc[t] = "panicked"

C12_NoReportAfterFailure == Failed => (out = <<>> /\ pc # "done")

\* The second worker failed on a malformed line after the first worker's
\* measurements were folded into the global ones, and main has ended.
C12_Witness ==
    /\ pc = "panicked"
    /\ \E t \in Workers : wpc[t] = "panicked" /\ wlines[t] # <<>>
    /\ measurements # EmptyMap
    /\ out = <<>>


(***************************************************************************)
(* C13.  The end offset of the last chunk descriptor memory_map returns is *)
(* exactly the file size, whatever the nominal chunk size and the offsets  *)
(* the probes found.                                                       *)
(***************************************************************************)
C13_LastEndIsFileSize == Planned => mmap[W][2] = file_size


(***************************************************************************)
(* C14.  An input file without data lines yields the report {}: the run    *)
(* does not fail, and what it writes is exactly an opening brace followed  *)
(* by a closing brace.                                                     *)
(***************************************************************************)
C14_EmptyFileReport ==
    file = <<>> =>
        /\ pc # "panicked"
        /\ pc = "done" => out = <<LBRACE, RBRACE>>


(***************************************************************************)
(* C15.  Rounding is idempotent on in-contract values: for a value with    *)
(* exactly one fractional digit (negative, zero or positive, -2.0 among    *)
(* them) round_towards_positive returns the value itself, and applying it  *)
(* to its own result changes nothing.                                      *)
(***************************************************************************)
\* The text after the last ; of a line, and the number of its digits after
\* the point.
ValueText(line) ==
    LET semis == {i \in 1..Len(line) : line[i] = SEMI}
        at    == CHOOSE i \in semis : \A j \in semis : j <= i
    IN  SubSeq(line, at + 1, Len(line))

FractionalDigits(text) ==
    LET dots == {i \in 1..Len(text) : text[i] = DOT}
    IN  IF dots = {} THEN 0 ELSE Len(text) - (CHOOSE i \in dots : TRUE)

\* The value a worker has recorded for the one record of the file.
Recorded(t) == wmap[t][KeyOf(Records[1])].min

C15_RoundingIdempotent ==
    \A t \in Workers :
        (wmap[t] # EmptyMap /\ FractionalDigits(ValueText(Records[1])) = 1) =>
            /\ Recorded(t) = ParseF64(ValueText(Records[1])).v
            /\ round_towards_positive(Recorded(t)) = Recorded(t)

\* -2.0 was parsed, rounded and recorded as -2.0.
C15_Witness ==
    /\ ValueText(Records[1]) = <<MINUS, 50, DOT, 48>>
    /\ \E t \in Workers :
          /\ wmap[t] # EmptyMap
          /\ Recorded(t) = F64OfTenths(-20)

(***************************************************************************)
(* C16.  The decimal parser rounds toward positive infinity to one decimal *)
(* place for every input: a value with more than one fractional digit,     *)
(* positive or negative, is recorded as the smallest one-decimal value     *)
(* that is not less than it (the ceiling of ten times the value, over ten).*)
(***************************************************************************)
\* The digits of a value's text as an integer with its sign: the value
\* times 10^FractionalDigits.
ScaledOf(text) ==
    LET n == DigitsToNat(SelectDigits(text), 0)
    IN  IF text[1] = MINUS THEN 0 - n ELSE n

\* The least integer that is not less than h / 10.
CeilTenth(h) == IF h >= 0 THEN (h + 9) \div 10 ELSE 0 - ((0 - h) \div 10)

C16_RoundsTowardPositive ==
    \A t \in Workers :
        (wmap[t] # EmptyMap /\ FractionalDigits(ValueText(Records[1])) = 2) =>
            F64Cmp(Recorded(t), F64OfTenths(CeilTenth(ScaledOf(ValueText(Records[1]))))) = 0


(***************************************************************************)
(* C17.  Whenever the bytes a boundary probe actually reads from the file  *)
(* hold no line break (a probe at or past end-of-file and a probe that     *)
(* reads fewer bytes than the window included), chunk planning aborts and  *)
(* returns no descriptors: no boundary comes from bytes the current probe  *)
(* did not read.                                                           *)
(***************************************************************************)
\* The bytes the next probe reads from the file.
ProbeBytes == ReadAt(file, beginning + chunk_size, ProbeLen)

C17_ProbeWithoutLineBreakAborts ==
    [][(pc = "plan" /\ Len(mmap) < W /\ find(ProbeBytes) < 0) => pc' = "panicked"]_vars


(***************************************************************************)
(* C18.  Once main has folded the measurements of all W workers, the keys  *)
(* of the global measurements are the union of the workers' keys, and for  *)
(* every key the global accumulator is the merge of the workers'           *)
(* accumulators of that key: the least of their mins, the greatest of      *)
(* their maxes, their sums added up (in f64, in the order of the handles)  *)
(* and their counts added up; the accumulator of a key only one worker     *)
(* holds is that worker's, unchanged.                                      *)
(***************************************************************************)
Holders(c) == {t \in Workers : c \in DOMAIN wmap[t]}

RECURSIVE CountOfCounts(_, _)
CountOfCounts(c, n) ==
    IF n = 0 THEN 0
    ELSE CountOfCounts(c, n - 1) + (IF n \in Holders(c) THEN wmap[n][c].count ELSE 0)

\* The sums of the workers 1..n that hold c, added in that order; n is at
\* least the first holder.
RECURSIVE SumOfSums(_, _)
SumOfSums(c, n) ==
    IF n \notin Holders(c) THEN SumOfSums(c, n - 1)
    ELSE IF \A t \in Holders(c) : t >= n THEN wmap[n][c].sum
    ELSE F64Add(SumOfSums(c, n - 1), wmap[n][c].sum)

C18_GlobalIsMergeOfLocals ==
    pc \in {"render", "done"} =>
        /\ DOMAIN measurements = UNION {DOMAIN wmap[t] : t \in Workers}
        /\ \A c \in DOMAIN measurements :
              LET g == measurements[c]
                  H == Holders(c)
              IN  /\ \E t \in H : g.min = wmap[t][c].min
                  /\ \A t \in H : ~F64Lt(wmap[t][c].min, g.min)
                  /\ \E t \in H : g.max = wmap[t][c].max
                  /\ \A t \in H : ~F64Gt(wmap[t][c].max, g.max)
                  /\ g.sum = SumOfSums(c, W)
                  /\ g.count = CountOfCounts(c, W)
                  /\ \A t \in H : H = {t} => g = wmap[t][c]

\* All workers folded: one key is held by more than one worker and has
\* min < max, another key by one worker only.
C18_Witness ==
    /\ pc = "done"
    /\ \E c \in DOMAIN measurements :
          /\ Cardinality(Holders(c)) >= 2
          /\ F64Lt(measurements[c].min, measurements[c].max)
    /\ \E c \in DOMAIN measurements : Cardinality(Holders(c)) = 1


(***************************************************************************)
(* C19.  Writes to the global measurements are serialized and come after   *)
(* the worker's completion: only a step of the main thread changes them,   *)
(* and no worker moves in that step; the measurements folded in are those  *)
(* of the handle joined last, whose worker has returned (later workers may *)
(* still be running); no handle is joined twice; and rendering starts only *)
(* when all W workers have returned, been joined and been folded.          *)
(***************************************************************************)
LastJoined == joined[Len(joined)]

C19_FoldAfterJoin ==
    [][/\ measurements' # measurements =>
             /\ pc = "fold"
             /\ workerVars' = workerVars
             /\ joined # <<>>
             /\ wpc[LastJoined] = "returned"
             /\ \E c \in DOMAIN wmap[LastJoined] :
                   /\ c \in DOMAIN result
                   /\ result' = Remove(result, c)
                   /\ \A d \in DOMAIN measurements \ {c} :
                         measurements'[d] = measurements[d]
       /\ \A i, j \in 1..Len(joined') : i # j => joined'[i] # joined'[j]
       /\ pc' \in {"render", "done"} =>
             /\ Len(joined') = W
             /\ result' = EmptyMap
             /\ \A t \in Workers : wpc'[t] = "returned"
      ]_vars

\* Main is folding the first worker's measurements into the global ones
\* while a later worker is still reading its lines.
C19_Witness ==
    /\ pc = "fold"
    /\ measurements # EmptyMap
    /\ result # EmptyMap
    /\ \E t \in Workers : t > LastJoined /\ wpc[t] \in {"read", "lines"}


(***************************************************************************)
(* C20.  For every well-formed, line-break-terminated, non-empty input     *)
(* file and every W >= 1 the run eventually completes with a report: the   *)
(* planner returns W descriptors, every worker finishes, main joins them   *)
(* all, and the closing brace of the report is eventually written.         *)
(***************************************************************************)
Completed ==
    /\ pc = "done"
    /\ Len(mmap) = W
    /\ \A t \in Workers : wpc[t] = "returned"
    /\ Len(joined) = W
    /\ out # <<>>
    /\ out[Len(out)] = RBRACE

\* Every step moves some thread forward and no thread loops without bound,
\* so the run completes exactly if it never stops short of completion: in
\* every state the report is complete or some thread can take a step.
C20_RunCompletes == (file # <<>>) => (Completed \/ ENABLED Next)

=============================================================================
